---------------------------- MODULE Spec2Model ----------------------------
(***************************************************************************)
(* Attention-pattern generation, mask-to-layout compilation and the        *)
(* block-sparse test module of bart_ls-main/xformers.                      *)
(*                                                                         *)
(* Tensors are modelled the way torch stores a contiguous tensor: a shape  *)
(* and a flat row-major data array.  Indices are 0-based as in Python.     *)
(* A call of a pattern function is a two-step machine: Init draws the      *)
(* function and its arguments, the function's action computes the result   *)
(* (or raises) and moves pc from "call" to "return".                       *)
(***************************************************************************)
EXTENDS Integers, Sequences, FiniteSets, TLC

VARIABLES
    pc,                 \* "call" | "return" for a function call; the load position for the test module
    fn,                 \* the function being called
    args,               \* its arguments (a record)
    ret,                \* [raised, value]: what the call produced
    env,                \* the machine the block-sparse test module is loaded on
    _triton_available,  \* module global of test_triton_blocksparse.py
    _matmul_types,      \* module global of test_triton_blocksparse.py
    warnings,           \* number of logging.warning calls made so far
    load_error,         \* the exception that escaped the module load, or "none"
    skipped             \* the set of tests whose skipif condition is true

callVars == <<pc, fn, args, ret>>
loadVars == <<env, _triton_available, _matmul_types, warnings, load_error, skipped>>
vars == <<pc, fn, args, ret, env, _triton_available, _matmul_types, warnings, load_error, skipped>>

(***************************************************************************)
(* Bounds of the model.                                                    *)
(***************************************************************************)
MaxSize == 8        \* attn_size of local_1d_pattern ranges over 1..MaxSize
MaxWindow1d == 8    \* window_size of local_1d_pattern ranges over 1..MaxWindow1d

(***************************************************************************)
(* Tensors.                                                                *)
(***************************************************************************)
RECURSIVE Prod(_)
Prod(shape) == IF shape = <<>> THEN 1 ELSE Head(shape) * Prod(Tail(shape))

\* The row-major offset of index tuple idx in a tensor of the given shape.
RECURSIVE Flat(_, _)
Flat(idx, shape) ==
    IF Len(idx) = 0 THEN 0
    ELSE Flat(SubSeq(idx, 1, Len(idx) - 1), SubSeq(shape, 1, Len(shape) - 1))
             * shape[Len(shape)] + idx[Len(idx)]

At(t, idx) == t.data[Flat(idx, t.shape)]

\* The R x C tensor of the given dtype with entry f[i, j] at (i, j).
Tensor2(dtype, R, C, f) ==
    [shape |-> <<R, C>>,
     data  |-> [a \in 0 .. R * C - 1 |-> f[a \div C, a % C]],
     dtype |-> dtype]

NoValue == [shape |-> <<>>, data |-> <<>>, dtype |-> "none"]
Returns(v) == [raised |-> "none", value |-> v]
Raises(e) == [raised |-> e, value |-> NoValue]

Abs(x) == IF x < 0 THEN -x ELSE x

\* torch.ones(shape, dtype=torch.bool)
ones(R, C) == Tensor2("bool", R, C, [i \in 0 .. R - 1, j \in 0 .. C - 1 |-> TRUE])

\* torch.tril(t, diagonal=k): entries above the k-th diagonal are cleared.
tril(t, k) ==
    Tensor2(t.dtype, t.shape[1], t.shape[2],
            [i \in 0 .. t.shape[1] - 1, j \in 0 .. t.shape[2] - 1 |->
                 IF j - i <= k THEN At(t, <<i, j>>) ELSE FALSE])

\* A real number kept exactly as pow^(1/root): an integer n is [root 1, pow n],
\* the square root of a non-square n is [root 2, pow n].
Exact(n) == [root |-> 1, pow |-> n]
Sqrt(n) ==
    IF \E k \in 0 .. n : k * k = n
    THEN Exact(CHOOSE k \in 0 .. n : k * k = n)
    ELSE [root |-> 2, pow |-> n]

\* The integer an integral real stands for.
IntOf(v) == CASE v.root = 1 -> v.pow

\* Entry a of t as a real: torch computes closeness of boolean and integer
\* tensors on their values cast to float (True -> 1.0, False -> 0.0).
RealOf(t, a) ==
    CASE t.dtype = "bool" -> Exact(IF t.data[a] = TRUE THEN 1 ELSE 0)
      [] t.dtype = "long" -> Exact(t.data[a])
      [] t.dtype = "float" -> t.data[a]

\* t.float(): the entries of t as reals.
float(t) == [shape |-> t.shape,
             data  |-> [a \in DOMAIN t.data |-> RealOf(t, a)],
             dtype |-> "float"]

\* Whether shapes s and t broadcast: aligned from the right, each pair of
\* dimensions is equal or one of the two is 1.
broadcastable(s, t) ==
    \A k \in 1 .. (IF Len(s) < Len(t) THEN Len(s) ELSE Len(t)) :
        LET x == s[Len(s) - k + 1]
            y == t[Len(t) - k + 1]
        IN  x = y \/ x = 1 \/ y = 1

\* The shape two broadcastable shapes broadcast to.
broadcast_shape(s, t) ==
    LET n == IF Len(s) < Len(t) THEN Len(t) ELSE Len(s)
        dim(u, k) == IF k + Len(u) - n >= 1 THEN u[k + Len(u) - n] ELSE 1
    IN  [k \in 1 .. n |-> IF dim(s, k) = 1 THEN dim(t, k) ELSE dim(s, k)]

\* The index tuple of row-major offset a in a tensor of the given shape.
Unflat(a, shape) ==
    [k \in 1 .. Len(shape) |->
         (a \div Prod(SubSeq(shape, k + 1, Len(shape)))) % shape[k]]

\* The entry of t that index idx of the broadcast result reads: t's own axes
\* are the trailing ones, and an axis of length 1 is repeated.
broadcast_at(t, idx) ==
    LET n == Len(idx)
        m == Len(t.shape)
        own == [k \in 1 .. m |-> IF t.shape[k] = 1 THEN 0 ELSE idx[k + n - m]]
    IN  RealOf(t, Flat(own, t.shape))

\* torch.isclose(x, y) with the default rtol = 1e-05 and atol = 1e-08:
\* |x - y| <= atol + rtol * |y|.  For two integers that is |x - y| <= |y| div
\* 100000 (1e8 * |x - y| <= 1 + 1000 * |y|, and the left side is a multiple
\* of 1000).  Two different square roots of integers up to 40000 are at least
\* 1/400 = 0.0025 apart, more than the largest tolerance 1e-8 + 1e-5 * 200
\* there; beyond that range the comparison is not defined here.
isclose(x, y) ==
    LET small(v) == IF v.root = 1 THEN Abs(v.pow) <= 200 ELSE v.pow <= 40000
    IN  IF x = y THEN TRUE
        ELSE CASE x.root = 1 /\ y.root = 1 ->
                      Abs(x.pow - y.pow) <= Abs(y.pow) \div 100000
               [] (x.root # 1 \/ y.root # 1) /\ small(x) /\ small(y) -> FALSE

\* torch.allclose(a, b): a RuntimeError when the dtypes differ or the shapes do
\* not broadcast, else whether every pair of broadcast entries is close.
allclose(a, b) ==
    IF a.dtype # b.dtype \/ ~broadcastable(a.shape, b.shape)
    THEN Raises("RuntimeError")
    ELSE LET shape == broadcast_shape(a.shape, b.shape)
         IN  [raised |-> "none",
              value  |-> \A o \in 0 .. Prod(shape) - 1 :
                             isclose(broadcast_at(a, Unflat(o, shape)),
                                     broadcast_at(b, Unflat(o, shape)))]

\* assert r, for the result r of a call that may raise: it returned True.
asserted(r) == r.raised = "none" /\ r.value

(***************************************************************************)
(* local_1d_pattern                                                        *)
(***************************************************************************)
\* AP.local_1d_pattern(attn_size, window_size)
local_1d_pattern(attn_size, window_size) ==
    IF window_size % 2 # 1 THEN Raises("AssertionError")
    ELSE Returns(Tensor2("bool", attn_size, attn_size,
                         [i \in 0 .. attn_size - 1, j \in 0 .. attn_size - 1 |->
                              Abs(i - j) <= window_size \div 2]))

\* The baseline with its lower cut one diagonal too high.
_local_1d_pattern_offbyone(attn_size, window_size) ==
    IF window_size % 2 # 1 THEN Raises("AssertionError")
    ELSE LET h_win_size == window_size \div 2
             full_attn == ones(attn_size, attn_size)
             lower == tril(full_attn, h_win_size)
             cut == tril(full_attn, -h_win_size)
         IN  Returns(Tensor2("bool", attn_size, attn_size,
                 [i \in 0 .. attn_size - 1, j \in 0 .. attn_size - 1 |->
                      At(lower, <<i, j>>) /\ ~At(cut, <<i, j>>)]))

\* The baseline of the test file.
_local_1d_pattern(attn_size, window_size) ==
    IF window_size % 2 # 1 THEN Raises("AssertionError")
    ELSE LET h_win_size == window_size \div 2
             full_attn == ones(attn_size, attn_size)
             lower == tril(full_attn, h_win_size)
             cut == tril(full_attn, -(h_win_size + 1))
         IN  Returns(Tensor2("bool", attn_size, attn_size,
                 [i \in 0 .. attn_size - 1, j \in 0 .. attn_size - 1 |->
                      At(lower, <<i, j>>) /\ ~At(cut, <<i, j>>)]))

LoadIdle ==
    /\ env = [cuda |-> FALSE, device |-> "none", gpu_old |-> FALSE,
               unguarded |-> [failing |-> 0, exception |-> "none"],
               import |-> [failing |-> 0, exception |-> "none"]]
    /\ _triton_available = FALSE
    /\ _matmul_types = <<>>
    /\ warnings = 0
    /\ load_error = "none"
    /\ skipped = {}

InitLocal1d ==
    /\ pc = "call"
    /\ fn = "local_1d_pattern"
    /\ args \in [attn_size : 1 .. MaxSize, window_size : 1 .. MaxWindow1d]
    /\ ret = Raises("pending")
    /\ LoadIdle

Call_local_1d_pattern ==
    /\ pc = "call"
    /\ fn = "local_1d_pattern"
    /\ ret' = local_1d_pattern(args.attn_size, args.window_size)
    /\ pc' = "return"
    /\ UNCHANGED <<fn, args>>
    /\ UNCHANGED loadVars

NextLocal1d == Call_local_1d_pattern

SpecLocal1d == InitLocal1d /\ [][NextLocal1d]_vars

Returned(f) == pc = "return" /\ fn = f

\* C6: for every size n and odd window w, local_1d_pattern(n, w) is the n x n
\* boolean mask with entry (i, j) true iff |i - j| <= w // 2, which is the band
\* the test's baseline builds from two tril calls (the test compares the two
\* with allclose after .float()); for an even window the call raises an
\* AssertionError and returns no mask.
C6_Local1dBand ==
    Returned("local_1d_pattern") =>
        LET n == args.attn_size
            w == args.window_size
        IN  IF w % 2 = 1
            THEN /\ ret.raised = "none"
                 /\ ret.value.shape = <<n, n>>
                 /\ \A i \in 0 .. n - 1 : \A j \in 0 .. n - 1 :
                        At(ret.value, <<i, j>>) = (Abs(i - j) <= w \div 2)
                 /\ _local_1d_pattern(n, w).raised = "none"
                 /\ asserted(allclose(float(ret.value), float(_local_1d_pattern(n, w).value)))
            ELSE /\ ret.raised = "AssertionError"
                 /\ ret.value = NoValue

\* A band narrower than the mask: some off-diagonal entry is set and some entry is clear.
C6_Witness ==
    /\ Returned("local_1d_pattern")
    /\ args.window_size = 3
    /\ args.attn_size = 5
    /\ ret.raised = "none"
    /\ At(ret.value, <<0, 1>>) = TRUE
    /\ At(ret.value, <<0, 2>>) = FALSE


(***************************************************************************)
(* Geometry primitives: grids and pairwise distances                       *)
(***************************************************************************)
MaxGridDist == 4    \* H and W of the distance functions range over 1..MaxGridDist

PNorms == {0, 1, 2}

RECURSIVE SumSeq(_)
SumSeq(s) == IF s = <<>> THEN 0 ELSE Head(s) + SumSeq(Tail(s))

\* The L-p norm of a difference vector as torch.cdist computes it:
\* p = 0 counts the nonzero coordinates, p = 1 sums |d|, p = 2 is sqrt(sum d^2).
LpNorm(d, p) ==
    CASE p = 0 -> Exact(SumSeq([m \in DOMAIN d |-> IF d[m] # 0 THEN 1 ELSE 0]))
      [] p = 1 -> Exact(SumSeq([m \in DOMAIN d |-> Abs(d[m])]))
      [] p = 2 -> Sqrt(SumSeq([m \in DOMAIN d |-> d[m] * d[m]]))

\* torch.arange(n)
arange(n) == [shape |-> <<n>>, data |-> [a \in 0 .. n - 1 |-> a], dtype |-> "long"]

\* torch.meshgrid with "xy" indexing: the results have shape (len v, len u).
meshgrid_xy(u, v) ==
    LET H == u.shape[1]
        W == v.shape[1]
    IN  << [shape |-> <<W, H>>, dtype |-> u.dtype,
             data |-> [a \in 0 .. W * H - 1 |-> u.data[a % H]]],
           [shape |-> <<W, H>>, dtype |-> v.dtype,
             data |-> [a \in 0 .. W * H - 1 |-> v.data[a \div H]]] >>

\* torch.meshgrid(u, v) with its default "ij" indexing: both results have shape
\* (len u, len v), the first repeats u down the rows, the second v along the columns.
meshgrid(u, v) ==
    LET H == u.shape[1]
        W == v.shape[1]
    IN  << [shape |-> <<H, W>>, dtype |-> u.dtype,
             data |-> [a \in 0 .. H * W - 1 |-> u.data[a \div W]]],
           [shape |-> <<H, W>>, dtype |-> v.dtype,
             data |-> [a \in 0 .. H * W - 1 |-> v.data[a % W]]] >>

\* t.reshape(shape) of a contiguous tensor: the data is kept, one -1 is inferred.
reshape(t, shape) ==
    LET known == Prod([k \in DOMAIN shape |-> IF shape[k] = -1 THEN 1 ELSE shape[k]])
    IN  [shape |-> [k \in DOMAIN shape |->
                        IF shape[k] = -1 THEN Prod(t.shape) \div known ELSE shape[k]],
         data  |-> t.data,
         dtype |-> t.dtype]

\* t.flatten()
flatten(t) == reshape(t, <<-1>>)

\* torch.stack([u, v], 1) of two 1-d tensors of equal length
stack1(u, v) ==
    [shape |-> <<u.shape[1], 2>>,
     data  |-> [a \in 0 .. 2 * u.shape[1] - 1 |->
                    IF a % 2 = 0 THEN u.data[a \div 2] ELSE v.data[a \div 2]],
     dtype |-> u.dtype]

\* torch.cdist(x1, x2, p) of point sets (P, M) and (R, M) with integral float
\* coordinates: the (P, R) matrix of the norms of the differences.
cdist(x1, x2, p) ==
    LET M == x1.shape[2]
    IN  Tensor2("float", x1.shape[1], x2.shape[1],
            [a \in 0 .. x1.shape[1] - 1, b \in 0 .. x2.shape[1] - 1 |->
                 LpNorm([m \in 1 .. M |->
                             IntOf(At(x1, <<a, m - 1>>)) - IntOf(At(x2, <<b, m - 1>>))], p)])

\* The grid built with "xy" indexing.
_generate_2d_grid_xy(H, W) == meshgrid_xy(arange(H), arange(W))

\* The baselines of the test file.
_generate_2d_grid(H, W) == meshgrid(arange(H), arange(W))

_horizontal_axial_2d_distance(H, W, p) ==
    LET i == _generate_2d_grid(H, W)[1]
        ij == float(reshape(i, <<-1, 1>>))
    IN  cdist(ij, ij, p)

_vertical_axial_2d_distance(H, W, p) ==
    LET j == _generate_2d_grid(H, W)[2]
        ij == float(reshape(j, <<-1, 1>>))
    IN  cdist(ij, ij, p)

_local_2d_distance(H, W, p) ==
    LET g == _generate_2d_grid(H, W)
        ij == float(stack1(flatten(g[1]), flatten(g[2])))
    IN  cdist(ij, ij, p)

\* AP.horizontal_axial_2d_distance, AP.vertical_axial_2d_distance and
\* AP.local_2d_distance: cell a of the row-major H x W grid is (a // W, a % W).
horizontal_axial_2d_distance(H, W, p) ==
    Tensor2("float", H * W, H * W,
            [a \in 0 .. H * W - 1, b \in 0 .. H * W - 1 |->
                 LpNorm(<<(a \div W) - (b \div W)>>, p)])

vertical_axial_2d_distance(H, W, p) ==
    Tensor2("float", H * W, H * W,
            [a \in 0 .. H * W - 1, b \in 0 .. H * W - 1 |->
                 LpNorm(<<(a % W) - (b % W)>>, p)])

local_2d_distance(H, W, p) ==
    Tensor2("float", H * W, H * W,
            [a \in 0 .. H * W - 1, b \in 0 .. H * W - 1 |->
                 LpNorm(<<(a \div W) - (b \div W), (a % W) - (b % W)>>, p)])

DistanceFns ==
    {"horizontal_axial_2d_distance", "vertical_axial_2d_distance", "local_2d_distance"}

InitDistance ==
    /\ pc = "call"
    /\ fn \in DistanceFns
    /\ args \in [H : 1 .. MaxGridDist, W : 1 .. MaxGridDist, p : PNorms]
    /\ ret = Raises("pending")
    /\ LoadIdle

Call_horizontal_axial_2d_distance ==
    /\ pc = "call"
    /\ fn = "horizontal_axial_2d_distance"
    /\ ret' = Returns(horizontal_axial_2d_distance(args.H, args.W, args.p))
    /\ pc' = "return"
    /\ UNCHANGED <<fn, args>>
    /\ UNCHANGED loadVars

Call_vertical_axial_2d_distance ==
    /\ pc = "call"
    /\ fn = "vertical_axial_2d_distance"
    /\ ret' = Returns(vertical_axial_2d_distance(args.H, args.W, args.p))
    /\ pc' = "return"
    /\ UNCHANGED <<fn, args>>
    /\ UNCHANGED loadVars

Call_local_2d_distance ==
    /\ pc = "call"
    /\ fn = "local_2d_distance"
    /\ ret' = Returns(local_2d_distance(args.H, args.W, args.p))
    /\ pc' = "return"
    /\ UNCHANGED <<fn, args>>
    /\ UNCHANGED loadVars

NextDistance ==
    \/ Call_horizontal_axial_2d_distance
    \/ Call_vertical_axial_2d_distance
    \/ Call_local_2d_distance

SpecDistance == InitDistance /\ [][NextDistance]_vars

\* The direct pairwise distance of grid cells (r1, c1) and (r2, c2) on the
\* coordinates the function uses; dsq is the squared Euclidean distance.
DirectDistance(f, r1, c1, r2, c2, p) ==
    LET dr == IF f = "vertical_axial_2d_distance" THEN 0 ELSE Abs(r1 - r2)
        dc == IF f = "horizontal_axial_2d_distance" THEN 0 ELSE Abs(c1 - c2)
        differing == (IF dr # 0 THEN 1 ELSE 0) + (IF dc # 0 THEN 1 ELSE 0)
        dsq == dr * dr + dc * dc
    IN  CASE p = 0 -> Exact(differing)
          [] p = 1 -> Exact(dr + dc)
          [] p = 2 -> IF dr = 0 \/ dc = 0 THEN Exact(dr + dc) ELSE Sqrt(dsq)

BaselineDistance(f, H, W, p) ==
    CASE f = "horizontal_axial_2d_distance" -> _horizontal_axial_2d_distance(H, W, p)
      [] f = "vertical_axial_2d_distance" -> _vertical_axial_2d_distance(H, W, p)
      [] f = "local_2d_distance" -> _local_2d_distance(H, W, p)

\* C10: for every H, W and p in {0, 1, 2} each distance function returns the
\* (H*W) x (H*W) matrix whose entry (a, b) is the direct L-p distance of cells
\* a = (a // W, a % W) and b of the row-major grid, on the row index alone
\* (horizontal), the column index alone (vertical) or both (local_2d, p = 0
\* counting the differing coordinates); it is what the test's baseline computes
\* with meshgrid and cdist, and it is symmetric with a zero diagonal.
C10_DistanceDirect ==
    (pc = "return" /\ fn \in DistanceFns) =>
        LET H == args.H
            W == args.W
            N == H * W
            d == ret.value
        IN  /\ ret.raised = "none"
            /\ d.shape = <<N, N>>
            /\ \A a \in 0 .. N - 1 : \A b \in 0 .. N - 1 :
                   /\ At(d, <<a, b>>) =
                          DirectDistance(fn, a \div W, a % W, b \div W, b % W, args.p)
                   /\ At(d, <<a, b>>) = At(d, <<b, a>>)
            /\ \A a \in 0 .. N - 1 : At(d, <<a, a>>) = Exact(0)
            /\ asserted(allclose(d, BaselineDistance(fn, H, W, args.p)))

\* A non-square grid where the axial and the joint distance differ and the
\* Euclidean distance of two diagonal neighbours is irrational.
C10_Witness ==
    /\ pc = "return"
    /\ fn = "local_2d_distance"
    /\ args.H = 2 /\ args.W = 3 /\ args.p = 2
    /\ At(ret.value, <<0, 4>>) = [root |-> 2, pow |-> 2]
    /\ At(ret.value, <<0, 3>>) = Exact(1)
    /\ At(ret.value, <<0, 2>>) = Exact(2)


(***************************************************************************)
(* swin_attention_pattern                                                  *)
(***************************************************************************)
MaxGridSwin == 8    \* H and W of swin_attention_pattern range over the multiples of the window up to MaxGridSwin
MaxWindowSwin == 4  \* window_size of swin_attention_pattern ranges over 1..MaxWindowSwin

\* The window (tile) a grid coordinate falls in once the grid is shifted.
swin_window_of(x, window_size, shift_size) == (x + shift_size) \div window_size

\* AP.swin_attention_pattern(H, W, window_size, shift_size): cells a and b of the
\* row-major grid attend to each other iff they fall in the same window.
swin_attention_pattern(H, W, window_size, shift_size) ==
    Tensor2("bool", H * W, H * W,
        [a \in 0 .. H * W - 1, b \in 0 .. H * W - 1 |->
            /\ swin_window_of(a \div W, window_size, shift_size)
                   = swin_window_of(b \div W, window_size, shift_size)
            /\ swin_window_of(a % W, window_size, shift_size)
                   = swin_window_of(b % W, window_size, shift_size)])

\* Whether t.reshape(shape) is accepted: the element counts agree.
reshape_fits(t, shape) == Prod(shape) = Prod(t.shape)

\* The view with the number of window columns taken from H.
window_partition_view_w_from_H(d, H, W, window_size) ==
    LET h == H \div window_size
        w == H \div window_size
        shape == <<h, window_size, w, window_size, h, window_size, w, window_size>>
    IN  IF reshape_fits(d, shape) THEN Returns(reshape(d, shape))
        ELSE Raises("RuntimeError")

\* test_swin_attention_pattern: the 8-d view of the pattern by window and offset.
window_partition_view(d, H, W, window_size) ==
    LET h == H \div window_size
        w == W \div window_size
        shape == <<h, window_size, w, window_size, h, window_size, w, window_size>>
    IN  IF reshape_fits(d, shape) THEN Returns(reshape(d, shape))
        ELSE Raises("RuntimeError")

\* test_swin_attention_pattern: what its loop over the regions asserts of the view d8.
regions_check(d8, H, W, window_size) ==
    LET h == H \div window_size
        w == W \div window_size
        O == 0 .. window_size - 1
        region(y, x, y2, x2) ==
            {At(d8, <<y, a, x, b, y2, a2, x2, b2>>) : a \in O, b \in O, a2 \in O, b2 \in O}
    IN  \A y \in 0 .. h - 1 : \A x \in 0 .. w - 1 :
            /\ region(y, x, y, x) = {TRUE}
            /\ \A y2 \in 0 .. h - 1 : \A x2 \in 0 .. w - 1 :
                   (y = y2 \/ x = x2) \/ region(y, x, y2, x2) = {FALSE}

\* The indices a Python slice(start, stop) selects on an axis of length L.
slice_indices(start, stop, L) ==
    LET lo == IF start < 0 THEN L + start ELSE start
        hi == IF stop < 0 THEN L + stop ELSE IF stop > L THEN L ELSE stop
    IN  IF hi > lo THEN [k \in 1 .. hi - lo |-> lo + k - 1] ELSE <<>>

\* t[s, s, s, s] of a 4-d tensor for s = slice(start, stop).
index4(t, start, stop) ==
    LET s1 == slice_indices(start, stop, t.shape[1])
        s2 == slice_indices(start, stop, t.shape[2])
        s3 == slice_indices(start, stop, t.shape[3])
        s4 == slice_indices(start, stop, t.shape[4])
        shape == <<Len(s1), Len(s2), Len(s3), Len(s4)>>
    IN  [shape |-> shape,
         data  |-> [a \in 0 .. Prod(shape) - 1 |->
            At(t, << s1[(a \div (shape[2] * shape[3] * shape[4])) + 1],
                     s2[((a \div (shape[3] * shape[4])) % shape[2]) + 1],
                     s3[((a \div shape[4]) % shape[3]) + 1],
                     s4[(a % shape[4]) + 1] >>)],
         dtype |-> t.dtype]

\* The cut taken from the corner [0, -2 * half_size) instead of the centre.
remove_padding_corner(d_padded, H, W, window_size) ==
    LET h == H + window_size
        w == W + window_size
        half_size == window_size \div 2
        d4 == reshape(d_padded, <<h, w, h, w>>)
        cut == index4(d4, 0, -(2 * half_size))
    IN  IF reshape_fits(cut, <<H * W, H * W>>)
        THEN Returns(reshape(cut, <<H * W, H * W>>))
        ELSE Raises("RuntimeError")

\* test_swin_attention_pattern: the padded pattern viewed as (h, w, h, w), cut
\* to [half_size, -half_size) on all four axes and flattened to (H*W, H*W).
remove_padding(d_padded, H, W, window_size) ==
    LET h == H + window_size
        w == W + window_size
        half_size == window_size \div 2
        d4 == reshape(d_padded, <<h, w, h, w>>)
        cut == index4(d4, half_size, -half_size)
    IN  IF reshape_fits(cut, <<H * W, H * W>>)
        THEN Returns(reshape(cut, <<H * W, H * W>>))
        ELSE Raises("RuntimeError")

InitSwin ==
    /\ pc = "call"
    /\ fn = "swin_attention_pattern"
    /\ \E ws \in 1 .. MaxWindowSwin :
       \E H \in {n \in 1 .. MaxGridSwin : n % ws = 0} :
       \E W \in {n \in 1 .. MaxGridSwin : n % ws = 0} :
       \E sh \in {0, ws \div 2} :
           args = [H |-> H, W |-> W, window_size |-> ws, shift_size |-> sh]
    /\ ret = Raises("pending")
    /\ LoadIdle

Call_swin_attention_pattern ==
    /\ pc = "call"
    /\ fn = "swin_attention_pattern"
    /\ ret' = Returns(swin_attention_pattern(args.H, args.W, args.window_size,
                                             args.shift_size))
    /\ pc' = "return"
    /\ UNCHANGED <<fn, args>>
    /\ UNCHANGED loadVars

NextSwin == Call_swin_attention_pattern

SpecSwin == InitSwin /\ [][NextSwin]_vars

\* C5: for every window and every H, W that are multiples of it, the unshifted
\* pattern is true at (i, j) iff cells i and j lie in the same window-by-window
\* tile: in the test's 8-d view by (tile row, row offset, tile column, column
\* offset) of both cells, the entry is true exactly when the two tiles are the
\* same tile, so each tile attends fully to itself and to no other tile.
C5_SwinSameTile ==
    (Returned("swin_attention_pattern") /\ args.shift_size = 0) =>
        LET H == args.H
            W == args.W
            ws == args.window_size
            h == H \div ws
            w == W \div ws
            O == 0 .. ws - 1
            view == window_partition_view(ret.value, H, W, ws)
            d8 == view.value
        IN  /\ ret.raised = "none"
            /\ ret.value.shape = <<H * W, H * W>>
            /\ view.raised = "none"
            /\ \A y \in 0 .. h - 1 : \A x \in 0 .. w - 1 :
               \A y2 \in 0 .. h - 1 : \A x2 \in 0 .. w - 1 :
               \A a \in O : \A b \in O : \A a2 \in O : \A b2 \in O :
                   /\ At(d8, <<y, a, x, b, y2, a2, x2, b2>>) = (y = y2 /\ x = x2)
                   /\ At(d8, <<y, a, x, b, y2, a2, x2, b2>>)
                          = At(ret.value, <<(y * ws + a) * W + x * ws + b,
                                            (y2 * ws + a2) * W + x2 * ws + b2>>)
            /\ regions_check(d8, H, W, ws)

\* A 4 x 6 grid of 2 x 2 tiles: a cell attends to its tile, not to the tile next to it in the same tile row.
C5_Witness ==
    /\ Returned("swin_attention_pattern")
    /\ args = [H |-> 4, W |-> 6, window_size |-> 2, shift_size |-> 0]
    /\ At(ret.value, <<0, 7>>) = TRUE
    /\ At(ret.value, <<0, 2>>) = FALSE
    /\ At(ret.value, <<0, 12>>) = FALSE

\* C2: for every even window and every H, W that are multiples of it, the
\* pattern shifted by window // 2 equals, entry for entry, the unshifted
\* pattern of the (H + window) x (W + window) grid viewed as a 4-d array, cut to
\* [window // 2, size - window // 2) on all four axes and flattened to (H*W, H*W).
C2_SwinShiftIsPadCrop ==
    (/\ Returned("swin_attention_pattern")
     /\ args.window_size % 2 = 0
     /\ args.shift_size = args.window_size \div 2) =>
        LET H == args.H
            W == args.W
            ws == args.window_size
            d_padded == swin_attention_pattern(H + ws, W + ws, ws, 0)
            cropped == remove_padding(d_padded, H, W, ws)
        IN  /\ ret.raised = "none"
            /\ cropped.raised = "none"
            /\ cropped.value.shape = <<H * W, H * W>>
            /\ ret.value.shape = <<H * W, H * W>>
            /\ \A a \in 0 .. H * W - 1 : \A b \in 0 .. H * W - 1 :
                   At(cropped.value, <<a, b>>) = At(ret.value, <<a, b>>)

\* The test's case: window 4 shifted by 2 on an 8 x 8 grid; the corner cell is
\* in a 2 x 2 partial window, cells (1, 1) and (2, 2) are in different windows.
C2_Witness ==
    /\ Returned("swin_attention_pattern")
    /\ args = [H |-> 8, W |-> 8, window_size |-> 4, shift_size |-> 2]
    /\ At(ret.value, <<0, 9>>) = TRUE
    /\ At(ret.value, <<9, 18>>) = FALSE
    /\ At(ret.value, <<18, 45>>) = TRUE


(***************************************************************************)
(* dilated_2d_pattern                                                      *)
(***************************************************************************)
MaxGridDilated == 5 \* H and W of dilated_2d_pattern range over 1..MaxGridDilated
MaxDilation == 4    \* k of dilated_2d_pattern ranges over 1..MaxDilation

\* AP.dilated_2d_pattern(H, W, k): cell (h, w) attends to (h2, w2) iff both
\* coordinates are congruent modulo k.
dilated_2d_pattern(H, W, k) ==
    Tensor2("bool", H * W, H * W,
        [a \in 0 .. H * W - 1, b \in 0 .. H * W - 1 |->
             ((a \div W) % k = (b \div W) % k) /\ ((a % W) % k = (b % W) % k)])

\* The view with its second axis taken from H.
dilated_view_HHHW(d, H, W) ==
    IF reshape_fits(d, <<H, H, H, W>>) THEN Returns(reshape(d, <<H, H, H, W>>))
    ELSE Raises("RuntimeError")

\* test_dilated_2d_pattern: d.reshape(H, W, H, W)
dilated_view(d, H, W) ==
    IF reshape_fits(d, <<H, W, H, W>>) THEN Returns(reshape(d, <<H, W, H, W>>))
    ELSE Raises("RuntimeError")

\* The indices the Python slice start::step selects on an axis of length L.
strided_indices(start, step, L) ==
    {x \in 0 .. L - 1 : x >= start /\ (x - start) % step = 0}

\* test_dilated_2d_pattern: what its loop asserts of the view d4.
dilated_check(d4, H, W, k) ==
    \A h \in 0 .. H - 1 : \A w \in 0 .. W - 1 :
        LET i == h % k
            j == w % k
            taken(ii, jj) ==
                {At(d4, <<h, w, h2, w2>>) :
                     h2 \in strided_indices(ii, k, H), w2 \in strided_indices(jj, k, W)}
        IN  /\ taken(i, j) \subseteq {TRUE}
            /\ \A ii \in 0 .. k - 1 : \A jj \in 0 .. k - 1 :
                   (ii = i /\ jj = j) \/ taken(ii, jj) \subseteq {FALSE}

InitDilated ==
    /\ pc = "call"
    /\ fn = "dilated_2d_pattern"
    /\ args \in [H : 1 .. MaxGridDilated, W : 1 .. MaxGridDilated, k : 1 .. MaxDilation]
    /\ ret = Raises("pending")
    /\ LoadIdle

Call_dilated_2d_pattern ==
    /\ pc = "call"
    /\ fn = "dilated_2d_pattern"
    /\ ret' = Returns(dilated_2d_pattern(args.H, args.W, args.k))
    /\ pc' = "return"
    /\ UNCHANGED <<fn, args>>
    /\ UNCHANGED loadVars

NextDilated == Call_dilated_2d_pattern

SpecDilated == InitDilated /\ [][NextDilated]_vars

\* C7: for every H, W and stride k, multiples of k or not, the pattern viewed
\* as an (H, W, H, W) array is true at (h, w, h2, w2) iff h2 mod k = h mod k and
\* w2 mod k = w mod k: the test's strided slices of the residue class of (h, w)
\* are all true and those of every other residue class are all false.
C7_DilatedResidues ==
    Returned("dilated_2d_pattern") =>
        LET H == args.H
            W == args.W
            k == args.k
            view == dilated_view(ret.value, H, W)
            d4 == view.value
        IN  /\ ret.raised = "none"
            /\ ret.value.shape = <<H * W, H * W>>
            /\ view.raised = "none"
            /\ \A h \in 0 .. H - 1 : \A w \in 0 .. W - 1 :
               \A h2 \in 0 .. H - 1 : \A w2 \in 0 .. W - 1 :
                   At(d4, <<h, w, h2, w2>>) = (h2 % k = h % k /\ w2 % k = w % k)
            /\ dilated_check(d4, H, W, k)

\* A grid whose sides are not multiples of the stride: (0, 0) attends to (2, 4)
\* and to the last row's (4, 0), not to (1, 0) or (2, 1).
C7_Witness ==
    /\ Returned("dilated_2d_pattern")
    /\ args = [H |-> 5, W |-> 5, k |-> 2]
    /\ At(ret.value, <<0, 14>>) = TRUE
    /\ At(ret.value, <<0, 20>>) = TRUE
    /\ At(ret.value, <<0, 5>>) = FALSE
    /\ At(ret.value, <<0, 11>>) = FALSE


(***************************************************************************)
(* pattern_to_layout                                                       *)
(***************************************************************************)
MaxMaskCells == 8   \* every boolean mask of at most MaxMaskCells elements is an input
MaxMaskSide == 6    \* SIZE of the test's masks ranges over 1..MaxMaskSide
MaxBlock == 3       \* block_size ranges over 1..MaxBlock

PadRows == 3        \* test_pattern_to_layout: mask_off has SIZE + 3 rows

\* torch.eye(n, dtype=dtype): the identity, with entries one and zero of the dtype asked for.
eye(n, dtype, one, zero) ==
    Tensor2(dtype, n, n,
            [i \in 0 .. n - 1, j \in 0 .. n - 1 |-> IF i = j THEN one ELSE zero])

\* torch.cat((a, b)) of 2-d tensors with the same number of columns: b's rows follow a's.
cat(a, b) ==
    LET na == Prod(a.shape)
    IN  [shape |-> <<a.shape[1] + b.shape[1], a.shape[2]>>,
         data  |-> [x \in 0 .. Prod(a.shape) + Prod(b.shape) - 1 |->
                        IF x < na THEN a.data[x] ELSE b.data[x - na]],
         dtype |-> a.dtype]

\* t.to(torch.long) of a boolean tensor
long(t) == [shape |-> t.shape,
            data  |-> [a \in DOMAIN t.data |-> IF t.data[a] = TRUE THEN 1 ELSE 0],
            dtype |-> "long"]

\* test_pattern_to_layout: its masks and the layouts it expects, for SIZE and LAYOUT_SIZE = n.
mask1(n) == ones(n, n)
ref1(n) == long(ones(n, n))
mask2(n) == eye(n, "bool", TRUE, FALSE)
ref2(n) == eye(n, "long", 1, 0)
mask3(n) == tril(ones(n, n), -1)
\* ref3_strict: the expected layout without its diagonal, as the mask is.
ref3_strict(n) == long(tril(ones(n, n), -1))
ref3(n) == long(tril(ones(n, n), 0))
mask_heads(n) == cat(cat(mask1(n), mask2(n)), mask3(n))
ref_heads(n) == cat(cat(ref1(n), ref2(n)), ref3(n))
mask_off(n) == ones(n + PadRows, n)

\* pattern_to_layout without its divisibility assertion: the remainder rows and columns are dropped.
pattern_to_layout_truncating(mask, block_size) ==
    LET nd == Len(mask.shape)
        R == mask.shape[nd - 1]
        C == mask.shape[nd]
        L == IF nd = 2 THEN 1 ELSE mask.shape[1]
        nr == R \div block_size
        nc == C \div block_size
        O == 0 .. block_size - 1
        bit(l, r, c) ==
            IF \E i \in O : \E j \in O :
                   mask.data[(l * R + r * block_size + i) * C + c * block_size + j] = TRUE
            THEN 1 ELSE 0
    IN  Returns([shape |-> IF nd = 2 THEN <<nr, nc>> ELSE <<L, nr, nc>>,
                 data  |-> [a \in 0 .. L * nr * nc - 1 |->
                                bit(a \div (nr * nc), (a \div nc) % nr, a % nc)],
                 dtype |-> "long"])

\* AP.pattern_to_layout(mask, block_size): the trailing (R, C) of the mask is
\* viewed as (R/block, block, C/block, block) tiles and each tile is reduced by
\* logical OR to one integer bit; a dimension block does not divide is refused.
pattern_to_layout(mask, block_size) ==
    LET nd == Len(mask.shape)
        R == mask.shape[nd - 1]
        C == mask.shape[nd]
        L == IF nd = 2 THEN 1 ELSE mask.shape[1]
        nr == R \div block_size
        nc == C \div block_size
        O == 0 .. block_size - 1
        tiles == reshape(mask, <<L, nr, block_size, nc, block_size>>)
        bit(l, r, c) ==
            IF \E i \in O : \E j \in O : At(tiles, <<l, r, i, c, j>>) = TRUE
            THEN 1 ELSE 0
    IN  IF R % block_size # 0 \/ C % block_size # 0
        THEN Raises("AssertionError")
        ELSE Returns([shape |-> IF nd = 2 THEN <<nr, nc>> ELSE <<L, nr, nc>>,
                      data  |-> [a \in 0 .. L * nr * nc - 1 |->
                                     bit(a \div (nr * nc), (a \div nc) % nr, a % nc)],
                      dtype |-> "long"])

MaskShapes ==
    LET D == 1 .. MaxMaskCells
    IN  {<<R, C>> : R \in D, C \in D} \cup {<<L, R, C>> : L \in D, R \in D, C \in D}

SmallMasks ==
    UNION {{[shape |-> sh, data |-> d, dtype |-> "bool"] :
                d \in [0 .. Prod(sh) - 1 -> BOOLEAN]} :
               sh \in {x \in MaskShapes : Prod(x) <= MaxMaskCells}}

TestMasks ==
    UNION {{mask1(n), mask2(n), mask3(n), mask_heads(n), mask_off(n)} :
               n \in 1 .. MaxMaskSide}

InitLayout ==
    /\ pc = "call"
    /\ fn = "pattern_to_layout"
    /\ \E m \in SmallMasks \cup TestMasks : \E b \in 1 .. MaxBlock :
           args = [mask |-> m, block_size |-> b]
    /\ ret = Raises("pending")
    /\ LoadIdle

Call_pattern_to_layout ==
    /\ pc = "call"
    /\ fn = "pattern_to_layout"
    /\ ret' = pattern_to_layout(args.mask, args.block_size)
    /\ pc' = "return"
    /\ UNCHANGED <<fn, args>>
    /\ UNCHANGED loadVars

NextLayout == Call_pattern_to_layout

SpecLayout == InitLayout /\ [][NextLayout]_vars

\* The trailing dimensions and the number of leading (head) entries of a mask.
MaskRows(m) == m.shape[Len(m.shape) - 1]
MaskCols(m) == m.shape[Len(m.shape)]
MaskHeads(m) == IF Len(m.shape) = 2 THEN 1 ELSE m.shape[1]
MaskAt(m, l, i, j) == IF Len(m.shape) = 2 THEN At(m, <<i, j>>) ELSE At(m, <<l, i, j>>)
Divides(b, m) == MaskRows(m) % b = 0 /\ MaskCols(m) % b = 0

\* Rows lo .. hi-1 of a 2-d tensor.
RowSlice(m, lo, hi) ==
    [shape |-> <<hi - lo, m.shape[2]>>,
     data  |-> [x \in 0 .. (hi - lo) * m.shape[2] - 1 |-> m.data[lo * m.shape[2] + x]],
     dtype |-> m.dtype]

\* C1: for every mask whose trailing dimensions are multiples of block the
\* layout has one 0/1 integer per block-by-block tile (per head), and entry
\* (r, c) is 1 iff some mask element in rows r*block..(r+1)*block-1 and columns
\* c*block..(c+1)*block-1 is set; so the test's all-true mask gives its all-ones
\* layout, its identity mask the identity layout, its strictly lower triangular
\* mask (block > 1) the lower triangular layout with the diagonal, and the
\* layout of masks stacked by rows is the stack of their layouts.
C1_LayoutIsTileOr ==
    (Returned("pattern_to_layout") /\ Divides(args.block_size, args.mask)) =>
        LET m == args.mask
            b == args.block_size
            nr == MaskRows(m) \div b
            nc == MaskCols(m) \div b
            L == MaskHeads(m)
            T == 0 .. b - 1
            lay == ret.value
        IN  /\ ret.raised = "none"
            /\ lay.shape = IF Len(m.shape) = 2 THEN <<nr, nc>> ELSE <<L, nr, nc>>
            /\ \A l \in 0 .. L - 1 : \A r \in 0 .. nr - 1 : \A c \in 0 .. nc - 1 :
                   /\ MaskAt(lay, l, r, c) \in {0, 1}
                   /\ MaskAt(lay, l, r, c) = 1 <=>
                          \E i \in T : \E j \in T : MaskAt(m, l, r * b + i, c * b + j) = TRUE
            /\ \A n \in 1 .. MaxMaskSide :
                   /\ m = mask1(n) => asserted(allclose(lay, ref1(n \div b)))
                   /\ m = mask2(n) => asserted(allclose(lay, ref2(n \div b)))
                   /\ (m = mask3(n) /\ b > 1) => asserted(allclose(lay, ref3(n \div b)))
                   /\ (m = mask_heads(n) /\ b > 1) => asserted(allclose(lay, ref_heads(n \div b)))
            /\ Len(m.shape) = 2 =>
                   \A k \in 0 .. nr :
                       lay = cat(pattern_to_layout(RowSlice(m, 0, k * b), b).value,
                                 pattern_to_layout(RowSlice(m, k * b, nr * b), b).value)

\* The test's three masks stacked, with blocks of 2: the layout is the three
\* expected layouts stacked, the third with its diagonal although the mask has none.
C1_Witness ==
    /\ Returned("pattern_to_layout")
    /\ args.block_size = 2
    /\ args.mask = mask_heads(4)
    /\ ret.raised = "none"
    /\ ret.value.shape = <<6, 2>>
    /\ ret.value = ref_heads(2)
    /\ At(args.mask, <<8, 0>>) = FALSE
    /\ At(ret.value, <<4, 0>>) = 1
    /\ At(ret.value, <<4, 1>>) = 0

\* C4: whenever a trailing dimension of the mask is not an exact multiple of
\* block, pattern_to_layout raises an AssertionError and returns no layout.
C4_LayoutRefusesIndivisible ==
    (Returned("pattern_to_layout") /\ ~Divides(args.block_size, args.mask)) =>
        /\ ret.raised = "AssertionError"
        /\ ret.value = NoValue

\* The test's mask_off, three rows too long for its block, is refused.
C4_Witness ==
    /\ Returned("pattern_to_layout")
    /\ args.mask = mask_off(4)
    /\ args.block_size = 2
    /\ MaskRows(args.mask) = 7
    /\ ret.raised = "AssertionError"


(***************************************************************************)
(* block_sparsify_tensor                                                   *)
(***************************************************************************)
MaxLayoutCells == 6 \* every 0/1 layout of at most MaxLayoutCells entries is an input
MaxBlockSparse == 2 \* BLOCK of block_sparsify_tensor ranges over 1..MaxBlockSparse
MaxBatch == 2       \* Z, the batch size of the dense tensor, ranges over 1..MaxBatch

\* test_matmul, test_softmax: torch.randint(2, (H, M // BLOCK, N // BLOCK)), any 0/1 layout.
LayoutInputs ==
    LET D == 1 .. MaxLayoutCells
    IN  UNION {{[shape |-> sh, data |-> d, dtype |-> "long"] :
                    d \in [0 .. Prod(sh) - 1 -> {0, 1}]} :
                   sh \in {x \in {<<H, r, c>> : H \in D, r \in D, c \in D} :
                               Prod(x) <= MaxLayoutCells}}

\* test_matmul, test_softmax: torch.randn((Z, H, M, N)); the entries of a random
\* dense tensor are pairwise distinct, here each entry is its own offset.
DenseInput(Z, H, M, N) ==
    [shape |-> <<Z, H, M, N>>,
     data  |-> [a \in 0 .. Z * H * M * N - 1 |-> Exact(a)],
     dtype |-> "float"]

\* The nonzero offsets listed by head, then block column, then block row.
nonzero_column_major(layout) ==
    LET H == layout.shape[1]
        nr == layout.shape[2]
        nc == layout.shape[3]
    IN  SelectSeq([k \in 1 .. H * nr * nc |->
                       LET h == (k - 1) \div (nr * nc)
                           c == ((k - 1) \div nr) % nc
                           r == (k - 1) % nr
                       IN  (h * nr + r) * nc + c],
                  LAMBDA a : layout.data[a] # 0)

\* layout.nonzero(): the offsets of the nonzero entries, ascending, which is
\* by head, then block row, then block column.
nonzero(layout) ==
    SelectSeq([k \in 1 .. Prod(layout.shape) |-> k - 1],
              LAMBDA a : layout.data[a] # 0)

\* AP.block_sparsify_tensor(x, layout, block): the blocks of the dense
\* (Z, H, M, N) tensor at the nonzero layout positions, as a (Z, K, block, block) tensor.
block_sparsify_tensor(x, layout, block) ==
    LET Z == x.shape[1]
        nr == layout.shape[2]
        nc == layout.shape[3]
        nz == nonzero(layout)
        K == Len(nz)
        entry(z, k, i, j) ==
            LET h == nz[k + 1] \div (nr * nc)
                r == (nz[k + 1] \div nc) % nr
                c == nz[k + 1] % nc
            IN  At(x, <<z, h, r * block + i, c * block + j>>)
    IN  [shape |-> <<Z, K, block, block>>,
         data  |-> [a \in 0 .. Z * K * block * block - 1 |->
                        entry(a \div (K * block * block), (a \div (block * block)) % K,
                              (a \div block) % block, a % block)],
         dtype |-> x.dtype]

InitSparsify ==
    /\ pc = "call"
    /\ fn = "block_sparsify_tensor"
    /\ \E layout \in LayoutInputs : \E b \in 1 .. MaxBlockSparse : \E Z \in 1 .. MaxBatch :
           args = [x |-> DenseInput(Z, layout.shape[1], layout.shape[2] * b,
                                    layout.shape[3] * b),
                   layout |-> layout,
                   block |-> b]
    /\ ret = Raises("pending")
    /\ LoadIdle

Call_block_sparsify_tensor ==
    /\ pc = "call"
    /\ fn = "block_sparsify_tensor"
    /\ ret' = Returns(block_sparsify_tensor(args.x, args.layout, args.block))
    /\ pc' = "return"
    /\ UNCHANGED <<fn, args>>
    /\ UNCHANGED loadVars

NextSparsify == Call_block_sparsify_tensor

SpecSparsify == InitSparsify /\ [][NextSparsify]_vars

\* The nonzero positions (h, r, c) of a layout, and their order by head, block row, block column.
NonzeroPositions(layout) ==
    {p \in (0 .. layout.shape[1] - 1) \X (0 .. layout.shape[2] - 1)
               \X (0 .. layout.shape[3] - 1) : At(layout, p) # 0}
Before(p, q) ==
    \/ p[1] < q[1]
    \/ p[1] = q[1] /\ p[2] < q[2]
    \/ p[1] = q[1] /\ p[2] = q[2] /\ p[3] < q[3]
\* The head a value of DenseInput lies in.
HeadOf(v, x) == (IntOf(v) \div (x.shape[3] * x.shape[4])) % x.shape[2]

\* C3: block_sparsify_tensor returns exactly one block-by-block block per
\* nonzero layout entry and none for a zero entry, ordered by head, then block
\* row, then block column: the k-th block is the dense tensor's block at the
\* k-th nonzero layout position, for every batch entry, so each head
\* contributes as many blocks as its layout has nonzero entries.
C3_SparsifyNonzeroBlocks ==
    Returned("block_sparsify_tensor") =>
        LET x == args.x
            layout == args.layout
            b == args.block
            NZ == NonzeroPositions(layout)
            K == Cardinality(NZ)
            Rank(p) == Cardinality({q \in NZ : Before(q, p)})
            out == ret.value
        IN  /\ ret.raised = "none"
            /\ out.shape = <<x.shape[1], K, b, b>>
            /\ \A p \in NZ : \A z \in 0 .. x.shape[1] - 1 :
               \A i \in 0 .. b - 1 : \A j \in 0 .. b - 1 :
                   At(out, <<z, Rank(p), i, j>>)
                       = At(x, <<z, p[1], p[2] * b + i, p[3] * b + j>>)
            /\ \A h \in 0 .. layout.shape[1] - 1 :
                   Cardinality({k \in 0 .. K - 1 : HeadOf(At(out, <<0, k, 0, 0>>), x) = h})
                       = Cardinality({p \in NZ : p[1] = h})

\* Two heads of 1 x 2 blocks of size 2, the first head's second block and the
\* second head's first block kept: two blocks, in that order.
C3_Witness ==
    /\ Returned("block_sparsify_tensor")
    /\ args.block = 2
    /\ args.layout = [shape |-> <<2, 1, 2>>,
                      data  |-> [a \in 0 .. 3 |-> IF a \in {1, 2} THEN 1 ELSE 0],
                      dtype |-> "long"]
    /\ args.x.shape = <<2, 2, 2, 4>>
    /\ ret.value.shape = <<2, 2, 2, 2>>
    /\ At(ret.value, <<0, 0, 0, 0>>) = At(args.x, <<0, 0, 0, 2>>)
    /\ At(ret.value, <<0, 1, 1, 1>>) = At(args.x, <<0, 1, 1, 1>>)
    /\ At(ret.value, <<1, 1, 0, 0>>) = At(args.x, <<1, 1, 0, 0>>)


(***************************************************************************)
(* alibi_pattern                                                           *)
(***************************************************************************)
MaxHeadsAlibi == 4      \* heads of the mask shape ranges over 1..MaxHeadsAlibi
MaxSeqAlibi == 4        \* N of the mask shape ranges over 1..MaxSeqAlibi
MaxThresholdNum == 3    \* the threshold is num/den with num in 0..MaxThresholdNum
MaxThresholdDen == 3    \* and den in 1..MaxThresholdDen

RECURSIVE Pow2(_)
Pow2(n) == IF n = 0 THEN 1 ELSE 2 * Pow2(n - 1)

\* The decay slope of head h of heads, geometric in the head index:
\* 2^-(h+1), given as its numerator over the common denominator 2^heads.
alibi_slope_num(h, heads) == Pow2(heads - 1 - h)

\* AP.alibi_pattern(threshold, mask_shape), mask_shape = (heads, N, N): the
\* decay of head h at (i, j) is its slope times the distance |i - j| from the
\* diagonal; the mask keeps the entries whose decay is below the threshold.
alibi_pattern(threshold, mask_shape) ==
    LET heads == mask_shape[1]
        N == mask_shape[2]
        kept(h, i, j) ==
            alibi_slope_num(h, heads) * Abs(i - j) * threshold.den
                < threshold.num * Pow2(heads)
    IN  [shape |-> <<heads, N, N>>,
         data  |-> [a \in 0 .. heads * N * N - 1 |->
                        kept(a \div (N * N), (a \div N) % N, a % N)],
         dtype |-> "bool"]

\* The count taken over the top-right corners mask[:, 0, -1].
corner_count_top_right(mask) ==
    SumSeq([h \in 1 .. mask.shape[1] |->
                IF At(mask, <<h - 1, 0, mask.shape[3] - 1>>) = TRUE THEN 1 ELSE 0])

\* test_alibi_pattern: torch.sum(mask[:, 0, 0])
corner_count(mask) ==
    SumSeq([h \in 1 .. mask.shape[1] |->
                IF At(mask, <<h - 1, 0, 0>>) = TRUE THEN 1 ELSE 0])

InitAlibi ==
    /\ pc = "call"
    /\ fn = "alibi_pattern"
    /\ \E heads \in 1 .. MaxHeadsAlibi : \E N \in 1 .. MaxSeqAlibi :
       \E num \in 0 .. MaxThresholdNum : \E den \in 1 .. MaxThresholdDen :
           args = [threshold |-> [num |-> num, den |-> den],
                   mask_shape |-> <<heads, N, N>>]
    /\ ret = Raises("pending")
    /\ LoadIdle

Call_alibi_pattern ==
    /\ pc = "call"
    /\ fn = "alibi_pattern"
    /\ ret' = Returns(alibi_pattern(args.threshold, args.mask_shape))
    /\ pc' = "return"
    /\ UNCHANGED <<fn, args>>
    /\ UNCHANGED loadVars

NextAlibi == Call_alibi_pattern

SpecAlibi == InitAlibi /\ [][NextAlibi]_vars

\* C8: for every shape (heads, N, N) and every positive threshold the mask is
\* true at (0, 0) of every head, whatever the head's slope, so the test's count
\* of true top-left corners equals heads.
C8_AlibiCornerKept ==
    (Returned("alibi_pattern") /\ args.threshold.num > 0) =>
        /\ ret.raised = "none"
        /\ ret.value.shape = args.mask_shape
        /\ \A h \in 0 .. args.mask_shape[1] - 1 : At(ret.value, <<h, 0, 0>>) = TRUE
        /\ corner_count(ret.value) = args.mask_shape[1]

\* Four heads with a threshold of 1/3: the steepest head keeps only its
\* diagonal, the flattest also its first off-diagonal, all keep the corner.
C8_Witness ==
    /\ Returned("alibi_pattern")
    /\ args.mask_shape = <<4, 4, 4>>
    /\ args.threshold = [num |-> 1, den |-> 3]
    /\ At(ret.value, <<0, 0, 1>>) = FALSE
    /\ At(ret.value, <<3, 0, 1>>) = TRUE
    /\ At(ret.value, <<3, 0, 3>>) = TRUE
    /\ At(ret.value, <<2, 0, 3>>) = FALSE
    /\ corner_count(ret.value) = 4


(***************************************************************************)
(* Loading test_triton_blocksparse.py                                      *)
(***************************************************************************)
\* Lines 6-14: the imports at the top of the module, outside any try block.
UnguardedImports ==
    << "math",
       "pytest",
       "torch",
       "xformers.components.MultiHeadDispatch",
       "xformers.components.attention.build_attention",
       "xformers.components.attention.attention_patterns.block_sparsify_tensor",
       "xformers.triton.utils.get_current_cuda_device" >>

\* The imports of the try block, in order.
GuardedImports ==
    << "triton",
       "triton.ops.blocksparse.matmul",
       "triton.ops.blocksparse.softmax",
       "xformers.components.attention.BlockSparseAttention",
       "xformers.triton.utils" >>

\* The exceptions the except clause catches, and one it does not.
CaughtExceptions == {"ImportError", "ModuleNotFoundError"}
ImportExceptions == CaughtExceptions \cup {"RuntimeError"}

\* What get_current_cuda_device() reports, and the devices whose compute
\* capability is older than 7.0 (gpu_capabilities_older_than_70()).
Devices == {"T4", "V100", "P100"}
OldDevices == {"P100"}

KernelTests ==
    {"test_matmul", "test_softmax", "test_attention_fwd_bwd",
     "test_blocksparse_attention_parity"}

\* The ways a list of imports can go: all succeed, or the k-th is the first to raise.
ImportOutcomes(imports) ==
    {[failing |-> 0, exception |-> "none"]}
        \cup {[failing |-> k, exception |-> e] :
                  k \in 1 .. Len(imports), e \in ImportExceptions}

\* The machines the module is loaded on: with or without CUDA, the unguarded
\* and the guarded imports each succeeding or the first failing one raising.
Environments ==
    {[cuda |-> FALSE, device |-> "none", gpu_old |-> FALSE, unguarded |-> u, import |-> i] :
         u \in ImportOutcomes(UnguardedImports), i \in ImportOutcomes(GuardedImports)}
        \cup {[cuda |-> TRUE, device |-> d, gpu_old |-> d \in OldDevices,
                unguarded |-> u, import |-> i] :
                  d \in Devices,
                  u \in ImportOutcomes(UnguardedImports),
                  i \in ImportOutcomes(GuardedImports)}

CallIdle ==
    /\ fn = "module"
    /\ args = [module |-> "test_triton_blocksparse"]
    /\ ret = Raises("pending")

InitLoad ==
    /\ pc = "imports"
    /\ env \in Environments
    /\ _triton_available = FALSE
    /\ _matmul_types = <<>>
    /\ warnings = 0
    /\ load_error = "none"
    /\ skipped = {}
    /\ CallIdle

\* Lines 6-14: every unguarded import succeeds.
UnguardedImportsSucceed ==
    /\ pc = "imports"
    /\ env.unguarded.failing = 0
    /\ pc' = "globals"
    /\ UNCHANGED <<env, _triton_available, _matmul_types, warnings, load_error, skipped,
                   fn, args, ret>>

\* Lines 6-14: an unguarded import raises; nothing catches it and the load fails
\* before any global is set.
UnguardedImportFails ==
    /\ pc = "imports"
    /\ env.unguarded.failing # 0
    /\ load_error' = env.unguarded.exception
    /\ pc' = "failed"
    /\ UNCHANGED <<env, _triton_available, _matmul_types, warnings, skipped, fn, args, ret>>

\* Lines 22-25: the two globals, then the branch on _triton_available.
LoadGlobals ==
    /\ pc = "globals"
    /\ _triton_available' = env.cuda
    /\ _matmul_types' = <<>>
    /\ pc' = IF env.cuda THEN "import" ELSE "decorators"
    /\ UNCHANGED <<env, warnings, load_error, skipped, fn, args, ret>>

\* Lines 27-35: every import of the try block succeeds.
ImportsSucceed ==
    /\ pc = "import"
    /\ env.import.failing = 0
    /\ pc' = "capability"
    /\ UNCHANGED <<env, _triton_available, _matmul_types, warnings, load_error, skipped,
                   fn, args, ret>>

\* Lines 39-43: an import raises ImportError or ModuleNotFoundError; the handler
\* logs a warning and clears _triton_available.
ImportFailsCaught ==
    /\ pc = "import"
    /\ env.import.failing # 0
    /\ env.import.exception \in CaughtExceptions
    /\ warnings' = warnings + 1
    /\ _triton_available' = FALSE
    /\ pc' = "decorators"
    /\ UNCHANGED <<env, _matmul_types, load_error, skipped, fn, args, ret>>

\* An import raises something the except clause does not name: the load fails.
ImportFailsUncaught ==
    /\ pc = "import"
    /\ env.import.failing # 0
    /\ env.import.exception \notin CaughtExceptions
    /\ load_error' = env.import.exception
    /\ pc' = "failed"
    /\ UNCHANGED <<env, _triton_available, _matmul_types, warnings, skipped, fn, args, ret>>

\* The step without the capability check: _triton_available stays True.
CheckCapability_ignored ==
    /\ pc = "capability"
    /\ _triton_available' = TRUE
    /\ _matmul_types' = <<"sdd", "dsd", "dds">>
    /\ pc' = "decorators"
    /\ UNCHANGED <<env, warnings, load_error, skipped, fn, args, ret>>

\* Lines 37-38: after the imports, the capability check and the matmul modes.
CheckCapability ==
    /\ pc = "capability"
    /\ _triton_available' = ~env.gpu_old
    /\ _matmul_types' = <<"sdd", "dsd", "dds">>
    /\ pc' = "decorators"
    /\ UNCHANGED <<env, warnings, load_error, skipped, fn, args, ret>>

\* Lines 46-50, 93, 141, 220: the skipif conditions of the four tests;
\* get_current_cuda_device() is only evaluated when _triton_available is true.
SkipIf(test) ==
    IF test = "test_matmul"
    THEN ~_triton_available \/ (~_triton_available \/ env.device = "T4")
    ELSE ~_triton_available

EvaluateDecorators ==
    /\ pc = "decorators"
    /\ skipped' = {t \in KernelTests : SkipIf(t)}
    /\ pc' = "loaded"
    /\ UNCHANGED <<env, _triton_available, _matmul_types, warnings, load_error, fn, args, ret>>

NextLoad ==
    \/ UnguardedImportsSucceed
    \/ UnguardedImportFails
    \/ LoadGlobals
    \/ ImportsSucceed
    \/ ImportFailsCaught
    \/ ImportFailsUncaught
    \/ CheckCapability
    \/ EvaluateDecorators

SpecLoad == InitLoad /\ [][NextLoad]_vars

\* The cases of an unavailable backend, each read where the module decides it:
\* CudaAbsent, torch.cuda.is_available() is False at line 22; ImportRaises, a
\* guarded import raises ImportError or ModuleNotFoundError (line 39), whatever
\* the GPU; GpuTooOld, the capability check of line 37 finds the GPU older than
\* 7.0, which it is asked only once every guarded import has succeeded.  A load
\* reaches line 22 only with the imports of lines 6-14 done (UnguardedImported);
\* a load that fails before is none of the three cases.
UnguardedImported == env.unguarded.failing = 0
CudaAbsent == UnguardedImported /\ ~env.cuda
ImportRaises ==
    /\ UnguardedImported
    /\ env.cuda
    /\ env.import.failing # 0
    /\ env.import.exception \in CaughtExceptions
GpuTooOld == UnguardedImported /\ env.cuda /\ env.import.failing = 0 /\ env.gpu_old
BackendUnavailable == CudaAbsent \/ ImportRaises \/ GpuTooOld

\* C9 as stated: in each of the three cases the load completes without
\* raising, _triton_available is False, the four tests are skipped and a
\* warning was emitted.
C9_WarningAlwaysEmitted ==
    BackendUnavailable =>
        /\ pc # "failed"
        /\ load_error = "none"
        /\ pc = "loaded" =>
               /\ _triton_available = FALSE
               /\ skipped = KernelTests
               /\ warnings >= 1

\* C9 amended: in each of the three cases the load completes without raising
\* and ends with _triton_available False and the four kernel tests skipped;
\* the warning is logged, once, exactly when a guarded import raised
\* ImportError or ModuleNotFoundError (on an old GPU too), and none is logged
\* when CUDA is absent or when, every guarded import having succeeded, the
\* capability check finds the GPU older than 7.0.
C9_SkippedWarningOnlyOnImportError ==
    BackendUnavailable =>
        /\ pc # "failed"
        /\ load_error = "none"
        /\ pc = "loaded" =>
               /\ _triton_available = FALSE
               /\ skipped = KernelTests
               /\ ImportRaises => warnings = 1
               /\ (CudaAbsent \/ GpuTooOld) => warnings = 0

\* A CUDA machine with every import in place and a GPU older than 7.0: loaded,
\* the matmul modes set, everything skipped, nothing logged.
C9_Witness ==
    /\ pc = "loaded"
    /\ GpuTooOld
    /\ _matmul_types = <<"sdd", "dsd", "dds">>
    /\ _triton_available = FALSE
    /\ skipped = KernelTests
    /\ warnings = 0


(***************************************************************************)
(* Everything together: a call of any pattern function, or the module load *)
(***************************************************************************)
Init ==
    \/ InitLocal1d
    \/ InitDistance
    \/ InitSwin
    \/ InitDilated
    \/ InitLayout
    \/ InitSparsify
    \/ InitAlibi
    \/ InitLoad

Next ==
    \/ NextLocal1d
    \/ NextDistance
    \/ NextSwin
    \/ NextDilated
    \/ NextLayout
    \/ NextSparsify
    \/ NextAlibi
    \/ NextLoad

Spec == Init /\ [][Next]_vars

=============================================================================
